---- MODULE Spec2Model ----
(***************************************************************************)
(* State-machine model of openvdb/tools/RayTracer.h: the Film, the         *)
(* LevelSetRayTracer life cycle (master / clone, jitter table ownership),  *)
(* its configuration methods and the row-partitioned trace; and of the     *)
(* cook of openvdb_houdini/houdini/SOP_OpenVDB_Analysis.cc.                *)
(*                                                                         *)
(* Conventions.                                                            *)
(*  - Colour channels are fixed-point numbers, One standing for 1.0f.      *)
(*  - size_t is narrowed to SizeMod = 2 * 16 values; the modulus stays a   *)
(*    multiple of 16 so that "n & 15" behaves as with a 64-bit counter.    *)
(*  - assert(e) is compiled out when NDEBUG is defined: the build is the   *)
(*    variable ndebug, chosen in Init.  A failing assert in a build that   *)
(*    keeps it aborts the process (aborted = TRUE, nothing happens after). *)
(*  - Sub-pixel offsets in [0,1) are quantised to Quant levels; 0.5 is the *)
(*    level Centre.                                                        *)
(***************************************************************************)
EXTENDS Integers, Sequences, FiniteSets, TLC

\* ------------------------------------------------------------------ bounds
Width == 2
Height == Width + 1
MaxSamples == 2
MaxTracers == 3
MaxTables == 2
MaxTraces == 1
MaxSets == 1
MaxCalls == 3
Quant == 4
MaxGrids == 3
MaxOps == 2

\* ------------------------------------------------------- program constants
One == 12
RandSize == 16
SizeMod == 2 * RandSize

Centre == Quant \div 2
Levels == 0 .. (Quant - 1)
Cols == 0 .. (Width - 1)
Rows == 0 .. (Height - 1)
Pixels == Cols \X Rows
TracerIds == 1 .. MaxTracers
TableIds == 1 .. MaxTables
NULL == 0
Seeds == {0, 1}
Grids == {"small", "large"}
Cameras == {"ortho", "persp"}

\* ------------------------------------------------------------ Film::RGBA
RGBA(r, g, b, a) == [r |-> r, g |-> g, b |-> b, a |-> a]

\* RGBA(ValueT _r, ValueT _g, ValueT _b, ValueT _a = 1.0f)
RGB(r, g, b) == RGBA(r, g, b, One)

\* fixed-point product of two channel values
FMul(x, y) == (x * y) \div One

\* RGBA operator*(ValueT scale) const: builds RGBA(r*scale, g*scale, b*scale),
\* whose alpha is the constructor's default 1.0f
Scale(c, scale) == RGB(FMul(c.r, scale), FMul(c.g, scale), FMul(c.b, scale))

\* RGBA& operator+=(const RGBA& rhs): r, g, b and a are all accumulated
PlusEq(c, rhs) == RGBA(c.r + rhs.r, c.g + rhs.g, c.b + rhs.b, c.a + rhs.a)

\* colours the callers of this model use
Backgrounds == {RGB(4, 4, 4), RGBA(0, 6, 12, 6)}
ShaderColours == {RGB(12, 12, 12), RGBA(12, 0, 0, 6)}

\* ------------------------------------------------- cameras and the scene
\* BaseCamera::getRay(i, j, iOffset, jOffset): the ray through raster point
\* (i + iOffset, j + jOffset), here in units of 1/Quant pixel
getRay(cam, i, j, iOffset, jOffset) ==
    [cam |-> cam, x |-> i * Quant + iOffset, y |-> j * Quant + jOffset]

\* silhouette radius (in 1/Quant pixels, doubled) of the level set of a grid
\* as seen by a camera: the perspective camera sees it smaller
Radius2(grid, cam) ==
    LET base == IF grid = "small" THEN Quant + 1 ELSE 2 * Quant + 1
    IN  IF cam = "persp" THEN base - 2 ELSE base

\* IntersectorT::intersectsWS(ray, xyz, nml): does the ray cross the zero
\* level set.  The level set is a sphere in front of the film centre.
intersectsWS(inter, ray) ==
    LET dx == 2 * ray.x + 1 - Width * Quant
        dy == 2 * ray.y + 1 - Height * Quant
        rr == Radius2(inter.grid, ray.cam)
    IN  dx * dx + dy * dy <= rr * rr

\* math::Rand01<double> rand(seed); rand(): the i-th draw, quantised.  A
\* full-period congruential sequence stands for the generator.
RECURSIVE RandState(_, _)
RandState(seed, i) == IF i = 0 THEN (7 * seed + 3) % RandSize
                      ELSE (5 * RandState(seed, i - 1) + 3) % RandSize
Rand01(seed, i) == (RandState(seed, i) * Quant) \div RandSize

\* --------------------------------------------------------------- state
VARIABLES
    ndebug,       \* the build defines NDEBUG: assert() is compiled out
    aborted,      \* an assert failed and ended the process
    tracers,      \* the LevelSetRayTracer objects, by slot
    tables,       \* the heap blocks "new double[16]" can return
    heapErr,      \* faults of delete [] seen so far
    film,         \* Film::mPixels, by (column, row)
    tr,           \* the trace() call in progress, if any
    tasks,        \* the operator() invocations of the trace in progress
    film0,        \* the film as it was when trace() was entered
    touched,      \* per pixel, the tasks that read or wrote it
    scratch,      \* the (task, intersector) pairs that ran a query
    queries,      \* per pixel, intersection queries made by this trace
    uaf,          \* a jitter read hit a block that is not allocated
    interrupted,  \* "no", or when the environment signalled an interruption:
                  \* "early" (some row had not been started) or "late"
    traces,       \* trace() calls returned so far
    sets,         \* setGrid/setIntersector/setShader/setCamera calls made so far
    calls,        \* calls of the tracer's interface made so far
    gdp,          \* the VDB primitives of the group, in iteration order
    gdp0,         \* the primitives as duplicateSource() copied them
    cook,         \* the position of cookMySop and its locals
    boss,         \* what boss.wasInterrupted() returns
    warnings,     \* the primitives addWarning() reported
    errors,       \* the messages addError() recorded
    visited,      \* the primitives handed to an operator by this cook
    img,          \* a Film object: mWidth, mHeight, mSize and mPixels
    theCamera,    \* a camera constructed on img
    ppm,          \* the file savePPM wrote
    pcall,        \* the last call that accessed mPixels and what it did
    oob,          \* an access went outside the storage of mPixels
    ops           \* calls made on img so far

rtVars == <<ndebug, aborted, tracers, tables, heapErr, film, tr, tasks, film0,
            touched, scratch, queries, uaf, interrupted, traces, sets, calls>>
cookVars == <<gdp, gdp0, cook, boss, warnings, errors, visited>>
imgVars == <<img, theCamera, ppm, pcall, oob, ops>>
\* the tracer's state without the flag of a failed assert
rtRest == <<ndebug, tracers, tables, heapErr, film, tr, tasks, film0,
            touched, scratch, queries, uaf, interrupted, traces, sets, calls>>
vars == <<rtVars, cookVars, imgVars>>

lifeVars == <<tracers, tables, heapErr>>
traceVars == <<film, tr, tasks, film0, touched, scratch, queries, uaf, interrupted, traces>>

NoInter == [grid |-> "small", at |-> <<"none", 0>>]
NoShader == [rgba |-> RGB(0, 0, 0), at |-> <<"none", 0>>]
NoTracer == [st |-> "none", mIsMaster |-> FALSE, mRand |-> NULL, mInter |-> NoInter,
             mShader |-> NoShader, mCamera |-> "ortho", mSubPixels |-> 0]
NoTable == [live |-> FALSE, vals |-> [x \in 0 .. (RandSize - 1) |-> 0]]
Idle == [phase |-> "idle", caller |-> 0, threaded |-> FALSE]

Live(t) == tracers[t].st = "live"
\* the caller's thread is free to destroy a tracer
CanDestroy == ~aborted /\ tr.phase = "idle"
\* the caller's thread is free to call the tracer's interface; after its
\* last trace() the caller's program only destroys its tracers
CanCall == CanDestroy /\ traces < MaxTraces

\* ------------------------------------------------------------ the heap
\* delete [] p: a null pointer is ignored, a live block is released
Delete(tb, p) == IF p = NULL THEN tb ELSE [tb EXCEPT ![p].live = FALSE]
\* delete [] p where p is neither null nor an allocated block
BadDelete(tb, p) == p # NULL /\ ~tb[p].live

\* for (i < 16) mRand[i] = rand(), with rand seeded by seed
RandTables == [seed \in Seeds |-> [x \in 0 .. (RandSize - 1) |-> Rand01(seed, x)]]
RandTable(seed) == RandTables[seed]

\* --------------------------------------------------- LevelSetRayTracer
\* mSubPixels = pixelSamples - 1, in size_t arithmetic
SubPixels(pixelSamples) == (pixelSamples - 1 + SizeMod) % SizeMod

\* assert(mIsMaster)
AssertMaster(x) == x.mIsMaster

\* ~LevelSetRayTracer(): if (mIsMaster) delete [] mRand
ShouldFreeAlways(x) == TRUE
ShouldFree(x) == x.mIsMaster

\* LevelSetRayTracer(const LevelSetRayTracer& other), built in storage self
CopyCtorSharing(other, self) ==
    [st |-> "live", mIsMaster |-> FALSE, mRand |-> other.mRand,
     mInter |-> other.mInter, mShader |-> other.mShader,
     mCamera |-> other.mCamera, mSubPixels |-> other.mSubPixels]
CopyCtor(other, self) ==
    [st |-> "live", mIsMaster |-> FALSE, mRand |-> other.mRand,
     mInter |-> [grid |-> other.mInter.grid, at |-> self],
     mShader |-> [rgba |-> other.mShader.rgba, at |-> self],
     mCamera |-> other.mCamera, mSubPixels |-> other.mSubPixels]

\* setPixelSamples on the tracer in slot t whose members are x:
\* the asserts, mSubPixels, delete [] mRand, and the new table if any
DoSetPixelSamples(t, x, pixelSamples, seed) ==
    IF ~ndebug /\ (~AssertMaster(x) \/ pixelSamples = 0)
    THEN /\ aborted' = TRUE
         /\ UNCHANGED lifeVars
    ELSE LET sub == SubPixels(pixelSamples)
             tb1 == Delete(tables, x.mRand)
             err == IF BadDelete(tables, x.mRand) THEN {"doubleFree"} ELSE {}
             by  == IF x.mRand # NULL /\ ~x.mIsMaster THEN {"cloneFree"} ELSE {}
         IN  /\ aborted' = aborted
             /\ heapErr' = heapErr \cup err \cup by
             /\ IF sub > 0
                THEN \E id \in TableIds :
                       /\ ~tb1[id].live
                       /\ tables' = [tb1 EXCEPT ![id] = [live |-> TRUE, vals |-> RandTable(seed)]]
                       /\ tracers' = [tracers EXCEPT ![t] = [x EXCEPT !.mSubPixels = sub, !.mRand = id]]
                ELSE /\ tables' = tb1
                     /\ tracers' = [tracers EXCEPT ![t] = [x EXCEPT !.mSubPixels = sub, !.mRand = NULL]]

\* LevelSetRayTracer(grid | inter, shader, camera, pixelSamples, seed)
Construct(t, grid, rgba, camera, pixelSamples, seed) ==
    /\ CanCall
    /\ tracers[t].st = "none"
    /\ DoSetPixelSamples(t, [st |-> "live", mIsMaster |-> TRUE, mRand |-> NULL,
                             mInter |-> [grid |-> grid, at |-> <<"tracer", t>>],
                             mShader |-> [rgba |-> rgba, at |-> <<"tracer", t>>],
                             mCamera |-> camera, mSubPixels |-> 0],
                         pixelSamples, seed)
    /\ UNCHANGED <<ndebug, traceVars, sets>>

CopyConstruct(t, other) ==
    /\ CanCall
    /\ tracers[t].st = "none"
    /\ Live(other)
    /\ tracers' = [tracers EXCEPT ![t] = CopyCtor(tracers[other], <<"tracer", t>>)]
    /\ UNCHANGED <<ndebug, aborted, tables, heapErr, traceVars, sets>>

Destroy(t) ==
    /\ CanDestroy
    /\ Live(t)
    /\ LET x == tracers[t]
           p == IF ShouldFree(x) THEN x.mRand ELSE NULL
       IN  /\ tables' = Delete(tables, p)
           /\ heapErr' = heapErr
                 \cup (IF BadDelete(tables, p) THEN {"doubleFree"} ELSE {})
                 \cup (IF p # NULL /\ ~x.mIsMaster THEN {"cloneFree"} ELSE {})
    /\ tracers' = [tracers EXCEPT ![t] = NoTracer]
    /\ UNCHANGED <<ndebug, aborted, traceVars, sets>>

\* a setter that only asserts mIsMaster and assigns one member
Setter(t, new) ==
    /\ CanCall
    /\ Live(t)
    /\ sets < MaxSets
    /\ sets' = sets + 1
    /\ IF ~ndebug /\ ~AssertMaster(tracers[t])
       THEN aborted' = TRUE /\ tracers' = tracers
       ELSE aborted' = aborted /\ tracers' = [tracers EXCEPT ![t] = new]
    /\ UNCHANGED <<ndebug, tables, heapErr, traceVars>>

\* setGrid(grid): mInter = IntersectorT(grid);  setIntersector(inter): mInter = inter
setGrid(t, grid) == Setter(t, [tracers[t] EXCEPT !.mInter.grid = grid])
setIntersector(t, grid) == Setter(t, [tracers[t] EXCEPT !.mInter.grid = grid])
\* setShader(shader): mShader.reset(shader.copy())
setShader(t, rgba) == Setter(t, [tracers[t] EXCEPT !.mShader.rgba = rgba])
\* setCamera(camera): mCamera = &camera
setCamera(t, camera) == Setter(t, [tracers[t] EXCEPT !.mCamera = camera])

setPixelSamples(t, pixelSamples, seed) ==
    /\ CanCall
    /\ Live(t)
    /\ DoSetPixelSamples(t, tracers[t], pixelSamples, seed)
    /\ UNCHANGED <<ndebug, traceVars, sets>>

\* ------------------------------------------------------- trace, operator()
\* const float frac = 1.0f / (1.0f + mSubPixels)
frac(x) == (One * One) \div (One + x.mSubPixels * One)

\* intersectsWS(ray, xyz, nml) ? (*mShader)(xyz, nml, ray) : bg
Sample(x, ray, bg) == IF intersectsWS(x.mInter, ray) THEN x.mShader.rgba ELSE bg

\* the contents a read of mRand can see: those of the block when it is
\* allocated; a read through a dangling pointer may see the stale values or
\* whatever replaced them
RandViews(x) ==
    IF x.mRand # NULL /\ tables[x.mRand].live
    THEN {tables[x.mRand].vals}
    ELSE {[k \in 0 .. (RandSize - 1) |-> q] : q \in Levels}
            \cup (IF x.mRand # NULL THEN {tables[x.mRand].vals} ELSE {})

\* for (k = 0; k < mSubPixels; ++k, n += 2)
\*     c += sample(getRay(i, j, mRand[n & 15], mRand[n+1 & 15]))
RECURSIVE JitterLoop(_, _, _, _, _, _, _, _)
JitterLoop(x, vals, i, j, bg, n, k, c) ==
    IF k >= x.mSubPixels THEN c
    ELSE JitterLoop(x, vals, i, j, bg, (n + 2) % SizeMod, k + 1,
                    PlusEq(c, Sample(x, getRay(x.mCamera, i, j, vals[n % RandSize],
                                               vals[(n + 1) % RandSize]), bg)))

\* the body of the two loops for one pixel: the value stored by "bg = c*frac"
PixelColour(x, vals, i, j, bg, n) ==
    Scale(JitterLoop(x, vals, i, j, bg, n, 0, Sample(x, getRay(x.mCamera, i, j, Centre, Centre), bg)),
          frac(x))

\* n when the loops reach the pixel after (i, j)
NextN(x, n, i) == (n + 2 * x.mSubPixels) % SizeMod

\* the test of the loop over the rows: j < je
KeepGoingPolled(task) == task.j < task.end /\ interrupted = "no"
KeepGoing(task) == task.j < task.end

\* the rows operator()(range) visits: range.begin() <= j < range.end()
RowsOf(task) == {j \in Rows : task.begin <= j /\ j < task.end}

\* operator()(range) about to run: j = range.begin(), i = 0, n = 0
NewTaskFromZero(body, begin, end) ==
    [body |-> body, begin |-> begin, end |-> end, j |-> 0, i |-> 0, n |-> 0,
     state |-> "ready"]
NewTask(body, begin, end) ==
    [body |-> body, begin |-> begin, end |-> end, j |-> begin, i |-> 0, n |-> 0,
     state |-> "ready"]

\* trace(threaded): range(0, mCamera->height());
\* threaded ? tbb::parallel_for(range, *this) : (*this)(range)
TraceBegin(t, threaded) ==
    /\ CanCall
    /\ Live(t)
    /\ tr' = [phase |-> "running", caller |-> t, threaded |-> threaded]
    /\ tasks' = << NewTask(IF threaded THEN CopyCtor(tracers[t], <<"task", 1>>) ELSE tracers[t],
                           0, Height) >>
    /\ film0' = film
    /\ touched' = [p \in Pixels |-> {}]
    /\ queries' = [p \in Pixels |-> 0]
    /\ scratch' = {}
    /\ interrupted' = "no"
    /\ UNCHANGED <<ndebug, aborted, lifeVars, film, uaf, traces, sets>>

\* parallel_for splits a range that has not started and is divisible
\* (more than one row) in the middle; the new half gets a copy of the body
Split(k) ==
    /\ tr.phase = "running" /\ tr.threaded
    /\ k \in DOMAIN tasks
    /\ tasks[k].state = "ready"
    /\ tasks[k].end - tasks[k].begin > 1
    /\ LET mid == tasks[k].begin + (tasks[k].end - tasks[k].begin) \div 2
           new == Len(tasks) + 1
       IN  tasks' = Append([tasks EXCEPT ![k].end = mid],
                           NewTask(CopyCtor(tasks[k].body, <<"task", new>>), mid, tasks[k].end))
    /\ UNCHANGED <<ndebug, aborted, lifeVars, film, tr, film0, touched, scratch, queries,
                   uaf, interrupted, traces, sets>>

\* one pixel of operator()(range) run by task k
PixelStep(k) ==
    /\ tr.phase = "running"
    /\ k \in DOMAIN tasks
    /\ tasks[k].state \in {"ready", "running"}
    /\ KeepGoing(tasks[k])
    /\ LET task == tasks[k]
           x == task.body
           i == task.i
           j == task.j
           i1 == IF i + 1 = Width THEN 0 ELSE i + 1
           j1 == IF i + 1 = Width THEN j + 1 ELSE j
           task1 == [task EXCEPT !.i = i1, !.j = j1, !.n = NextN(x, task.n, i)]
       IN  /\ \E vals \in (IF x.mSubPixels > 0 THEN RandViews(x) ELSE {NoTable.vals}) :
                 film' = [film EXCEPT ![<<i, j>>] = PixelColour(x, vals, i, j, film[<<i, j>>], task.n)]
           /\ tasks' = [tasks EXCEPT ![k] = [task1 EXCEPT !.state = "running"]]
           /\ touched' = [touched EXCEPT ![<<i, j>>] = @ \cup {k}]
           /\ queries' = [queries EXCEPT ![<<i, j>>] = @ + 1 + x.mSubPixels]
           /\ scratch' = scratch \cup {<<k, x.mInter.at>>}
           /\ uaf' = (uaf \/ (x.mSubPixels > 0 /\ (x.mRand = NULL \/ ~tables[x.mRand].live)))
    /\ UNCHANGED <<ndebug, aborted, lifeVars, tr, film0, interrupted, traces, sets>>

\* the loop test of task k fails: operator()(range) returns
RangeEnd(k) ==
    /\ tr.phase = "running"
    /\ k \in DOMAIN tasks
    /\ tasks[k].state \in {"ready", "running"}
    /\ ~KeepGoing(tasks[k])
    /\ tasks' = [tasks EXCEPT ![k].state = "done"]
    /\ UNCHANGED <<ndebug, aborted, lifeVars, film, tr, film0, touched, scratch, queries,
                   uaf, interrupted, traces, sets>>

AnyDone == tr.phase = "running" /\ \E k \in DOMAIN tasks : tasks[k].state = "done"
AllDone == tr.phase = "running" /\ \A k \in DOMAIN tasks : tasks[k].state = "done"

\* the bodies parallel_for copied are destroyed; trace() returns
RECURSIVE DestroyBodies(_, _)
DestroyBodies(tb, k) ==
    IF k > Len(tasks) THEN tb
    ELSE DestroyBodies(Delete(tb, IF ShouldFree(tasks[k].body) THEN tasks[k].body.mRand ELSE NULL), k + 1)

TraceEnd ==
    /\ AllDone
    /\ tr' = Idle
    /\ tasks' = << >>
    /\ traces' = traces + 1
    /\ IF tr.threaded
       THEN /\ tables' = DestroyBodies(tables, 1)
            /\ heapErr' = heapErr \cup
                 (IF \E k \in DOMAIN tasks : ShouldFree(tasks[k].body) /\ tasks[k].body.mRand # NULL
                  THEN {"cloneFree"} ELSE {})
       ELSE UNCHANGED <<tables, heapErr>>
    /\ UNCHANGED <<ndebug, aborted, tracers, film, film0, touched, scratch, queries, uaf,
                   interrupted, sets>>

\* no task has touched a pixel of row j
NotStarted(j) == \A i \in Cols : touched[<<i, j>>] = {}

\* the environment signals an interruption while trace() runs
Interrupt ==
    /\ tr.phase = "running"
    /\ interrupted = "no"
    /\ interrupted' = IF \E j \in Rows : NotStarted(j) THEN "early" ELSE "late"
    /\ UNCHANGED <<ndebug, aborted, lifeVars, film, tr, tasks, film0, touched, scratch,
                   queries, uaf, traces, sets>>

\* ------------------------------------------------------------------ Init
\* no cook is in progress and the geometry holds no primitive
NullGrid == [type |-> "none", op |-> 0 - 1]
NoCook == [pc |-> "idle", it |-> 1, whichOp |-> 0, renaming |-> 0, customName |-> << >>,
           ok |-> TRUE, outGrid |-> NullGrid]
CookIdle ==
    /\ gdp = << >>
    /\ gdp0 = << >>
    /\ cook = NoCook
    /\ boss = FALSE
    /\ warnings = {}
    /\ errors = {}
    /\ visited = {}

\* no Film object under test exists
NoFilm == [st |-> "none", mWidth |-> 0, mHeight |-> 0, mSize |-> 0, mPixels |-> << >>]
NoCamera == [st |-> "none", kind |-> "ortho", nearPlane |-> 1, farPlane |-> 2]
NoPPM == [st |-> "none", header |-> << >>, bytes |-> << >>, from |-> << >>]
NoCall == [kind |-> "none", w |-> 0, h |-> 0, result |-> "none", arg |-> << >>]
ImgIdle ==
    /\ img = NoFilm
    /\ theCamera = NoCamera
    /\ ppm = NoPPM
    /\ pcall = NoCall
    /\ oob = FALSE
    /\ ops = 0

Start ==
    /\ CookIdle
    /\ ImgIdle
    /\ aborted = FALSE
    /\ heapErr = {}
    /\ \E bg \in Backgrounds : film = [p \in Pixels |-> bg]
    /\ tr = Idle
    /\ tasks = << >>
    /\ film0 = film
    /\ touched = [p \in Pixels |-> {}]
    /\ scratch = {}
    /\ queries = [p \in Pixels |-> 0]
    /\ uaf = FALSE
    /\ interrupted = "no"
    /\ traces = 0
    /\ sets = 0
    /\ calls = 0

\* a film filled with a background colour; no tracer exists yet
Init ==
    /\ Start
    /\ ndebug \in BOOLEAN
    /\ tracers = [t \in TracerIds |-> NoTracer]
    /\ tables = [id \in TableIds |-> NoTable]

\* the same, after the master was constructed with pixelSamples >= 1
InitTrace ==
    /\ Start
    /\ ndebug = TRUE
    /\ \E grid \in Grids, rgba \in ShaderColours, camera \in Cameras,
          pixelSamples \in 1 .. MaxSamples, seed \in Seeds :
          LET sub == SubPixels(pixelSamples)
          IN  /\ tracers = [t \in TracerIds |->
                    IF t = 1
                    THEN [st |-> "live", mIsMaster |-> TRUE,
                          mRand |-> IF sub > 0 THEN 1 ELSE NULL,
                          mInter |-> [grid |-> grid, at |-> <<"tracer", t>>],
                          mShader |-> [rgba |-> rgba, at |-> <<"tracer", t>>],
                          mCamera |-> camera, mSubPixels |-> sub]
                    ELSE NoTracer]
              /\ tables = [id \in TableIds |->
                    IF id = 1 /\ sub > 0 THEN [live |-> TRUE, vals |-> RandTable(seed)]
                    ELSE NoTable]

\* a call of the interface, counted against the length of the caller's program
Call(A) == calls < MaxCalls /\ calls' = calls + 1 /\ A /\ UNCHANGED <<cookVars, imgVars>>
\* a step that is no call, or a call of a program of any length
Step(A) == calls' = calls /\ A /\ UNCHANGED <<cookVars, imgVars>>

\* the whole interface, on programs of at most MaxCalls calls.  The master
\* is constructed on the first grid, shader and camera; the setters bring
\* in the others.
Next ==
    \/ \E pixelSamples \in 0 .. MaxSamples, seed \in Seeds :
          Call(Construct(1, "small", RGB(One, One, One), "ortho", pixelSamples, seed))
    \/ \E t \in TracerIds \ {1}, other \in TracerIds : Call(CopyConstruct(t, other))
    \/ \E t \in TracerIds : Call(Destroy(t))
    \/ \E t \in TracerIds, grid \in Grids : Call(setGrid(t, grid))
    \/ \E t \in TracerIds, grid \in Grids : Call(setIntersector(t, grid))
    \/ \E t \in TracerIds, rgba \in ShaderColours : Call(setShader(t, rgba))
    \/ \E t \in TracerIds, camera \in Cameras : Call(setCamera(t, camera))
    \/ \E t \in TracerIds, pixelSamples \in 0 .. MaxSamples, seed \in Seeds :
          Call(setPixelSamples(t, pixelSamples, seed))
    \/ \E t \in TracerIds, threaded \in BOOLEAN : Call(TraceBegin(t, threaded))
    \/ \E k \in 1 .. Height : Step(Split(k))
    \/ \E k \in 1 .. Height : Step(PixelStep(k))
    \/ \E k \in 1 .. Height : Step(RangeEnd(k))
    \/ Step(TraceEnd)
    \/ Step(Interrupt)

Spec == Init /\ [][Next]_vars

\* The ownership protocol of the jitter table: construction of the master,
\* setPixelSamples on it, copies and destructions, in any order and number.
\* Grid, shader, camera, seed and the film's contents take one value each:
\* none of these calls reads them.
InitLife == Init /\ film = [p \in Pixels |-> RGB(4, 4, 4)]

NextLife ==
    \/ \E pixelSamples \in 0 .. MaxSamples :
          Step(Construct(1, "small", RGB(One, One, One), "ortho", pixelSamples, 0))
    \/ \E t \in TracerIds \ {1}, other \in TracerIds : Step(CopyConstruct(t, other))
    \/ \E t \in TracerIds : Step(Destroy(t))
    \/ \E pixelSamples \in 0 .. MaxSamples : Step(setPixelSamples(1, pixelSamples, 0))

SpecLife == InitLife /\ [][NextLife]_vars

\* one trace() of a configured master
NextTrace ==
    \/ \E threaded \in BOOLEAN : traces = 0 /\ Step(TraceBegin(1, threaded))
    \/ \E k \in 1 .. Height : Step(Split(k))
    \/ \E k \in 1 .. Height : Step(PixelStep(k))
    \/ \E k \in 1 .. Height : Step(RangeEnd(k))
    \/ Step(TraceEnd)
    \/ Step(Interrupt)

SpecTrace == InitTrace /\ [][NextTrace]_vars

\* a configured master on one scene, copied by the caller; the master and
\* the copies are traced and destroyed, and the master reconfigured, in any
\* order
InitClone ==
    /\ InitTrace
    /\ tracers[1].mInter.grid = "small"
    /\ tracers[1].mShader.rgba = RGB(One, One, One)
    /\ tracers[1].mCamera = "ortho"
    /\ film = [p \in Pixels |-> RGB(4, 4, 4)]

NextClone ==
    \/ \E t \in TracerIds \ {1}, other \in TracerIds : Step(CopyConstruct(t, other))
    \/ \E t \in TracerIds : Step(Destroy(t))
    \/ \E pixelSamples \in 1 .. MaxSamples, seed \in Seeds :
          Step(setPixelSamples(1, pixelSamples, seed))
    \/ \E t \in TracerIds, threaded \in BOOLEAN : Step(TraceBegin(t, threaded))
    \/ \E k \in 1 .. Height : Step(Split(k))
    \/ \E k \in 1 .. Height : Step(PixelStep(k))
    \/ \E k \in 1 .. Height : Step(RangeEnd(k))
    \/ Step(TraceEnd)

SpecClone == InitClone /\ [][NextClone]_vars

\* one trace() of the master on that scene, under the scheduling of trace():
\* a range that can advance does, a range whose loop is over returns, and
\* parallel_for returns once all ranges have
NextRun ==
    \/ \E threaded \in BOOLEAN : traces = 0 /\ Step(TraceBegin(1, threaded))
    \/ \E k \in 1 .. Height : Step(Split(k))
    \/ \E k \in 1 .. Height : Step(PixelStep(k))
    \/ \E k \in 1 .. Height : Step(RangeEnd(k))
    \/ Step(TraceEnd)
FairTrace ==
    /\ WF_vars(\E k \in 1 .. Height : Step(PixelStep(k)))
    /\ WF_vars(\E k \in 1 .. Height : Step(RangeEnd(k)))
    /\ WF_vars(Step(TraceEnd))
SpecTraceFair == InitClone /\ [][NextRun]_vars /\ FairTrace

\* ------------------------------------------ SOP_OpenVDB_Analysis::cookMySop
GridTypes == {"float", "vec3s", "bool"}
CustomNames == {<< >>, <<"custom">>}

\* the case labels that call GEOvdbProcessTypedGridScalar: OP_GRADIENT = 0,
\* OP_CURVATURE, OP_LAPLACIAN, OP_CPT = 3; the other four take a vector grid
TakesScalar(whichOp) == whichOp \in 0 .. 3

\* operationName, as the case of the switch sets it
operationName(whichOp) ==
    << <<"_gradient">>, <<"_curvature">>, <<"_laplacian">>, <<"_cpt">>, <<"_divergence">>,
       <<"_curl">>, <<"_magnitude">>, <<"_normalize">> >>[whichOp + 1]

\* the value type of the grid an operator makes: gradient, closest point,
\* curl and normalize make a vector grid, the others a scalar grid
OutType(whichOp) == IF whichOp \in {0, 3, 5, 7} THEN "vec3s" ELSE "float"

\* GEOvdbProcessTypedGridScalar / GEOvdbProcessTypedGridVec3: true, with
\* the operator applied, exactly when the grid's value type is of that kind
GEOvdbProcessTypedGridScalar(type) == type = "float"
GEOvdbProcessTypedGridVec3(type) == type = "vec3s"

\* hvdb::replaceVdbPrimitive(gdp, outGrid, src, true, name): the primitive src
\* is replaced by one holding outGrid under the given name; without an
\* output grid the item is skipped
replaceVdbPrimitive(g, outGrid, src, name) ==
    IF outGrid = NullGrid THEN g
    ELSE [g EXCEPT ![src] = [type |-> outGrid.type, name |-> name, made |-> outGrid.op]]

\* boss.wasInterrupted() as the loop reads it
wasInterruptedNever(b) == FALSE
wasInterrupted(b) == b

\* throw std::runtime_error(what), caught by catch (std::exception& e):
\* addError(SOP_MESSAGE, e.what()); return error()
Throw(what) ==
    /\ cook' = [cook EXCEPT !.pc = "done"]
    /\ errors' = errors \cup {what}

\* if (!ok) addWarning(SOP_MESSAGE, "Can't compute ... from grid ...")
NotOkAsError(ok, it) ==
    /\ warnings' = warnings
    /\ errors' = IF ok THEN errors ELSE errors \cup {"Can't compute"}
NotOk(ok, it) ==
    /\ warnings' = IF ok THEN warnings ELSE warnings \cup {it}
    /\ errors' = errors

\* the new name of a grid: kept, operationName appended, or the custom name
\* when it is not empty
GridName(name, c) ==
    IF c.renaming = 1 THEN name \o operationName(c.whichOp)
    ELSE IF c.renaming = 2 /\ Len(c.customName) > 0 THEN c.customName
    ELSE name

\* cookMySop up to the loop: the parameters are evaluated, whichOp is checked
CookBegin(whichOp, renaming, customName) ==
    /\ cook.pc = "idle"
    /\ IF whichOp < 0 \/ whichOp > 7
       THEN Throw("expected 0 <= operator <= 7")
       ELSE /\ cook' = [NoCook EXCEPT !.pc = "loop", !.whichOp = whichOp,
                                      !.renaming = renaming, !.customName = customName]
            /\ errors' = errors
    /\ UNCHANGED <<rtVars, imgVars, gdp, gdp0, boss, warnings, visited>>

\* the head of one iteration: the poll, the switch and the warning
CookProcess ==
    /\ cook.pc = "loop"
    /\ cook.it <= Len(gdp)
    /\ IF wasInterrupted(boss)
       THEN Throw("was interrupted") /\ UNCHANGED <<warnings, visited>>
       ELSE LET vdb == gdp[cook.it]
                ok == IF TakesScalar(cook.whichOp)
                      THEN GEOvdbProcessTypedGridScalar(vdb.type)
                      ELSE GEOvdbProcessTypedGridVec3(vdb.type)
            IN  /\ cook' = [cook EXCEPT !.pc = "replace", !.ok = ok,
                                        !.outGrid = IF ok THEN [type |-> OutType(cook.whichOp),
                                                                op |-> cook.whichOp]
                                                    ELSE NullGrid]
                /\ visited' = IF ok THEN visited \cup {cook.it} ELSE visited
                /\ NotOk(ok, cook.it)
    /\ UNCHANGED <<rtVars, imgVars, gdp, gdp0, boss>>

\* the rest of the iteration: the grid's name, replaceVdbPrimitive, ++it
CookReplace ==
    /\ cook.pc = "replace"
    /\ gdp' = replaceVdbPrimitive(gdp, cook.outGrid, cook.it, GridName(gdp[cook.it].name, cook))
    /\ cook' = [cook EXCEPT !.pc = "loop", !.it = @ + 1, !.ok = TRUE, !.outGrid = NullGrid]
    /\ UNCHANGED <<rtVars, imgVars, gdp0, boss, warnings, errors, visited>>

\* the iterator is exhausted: return error()
CookEnd ==
    /\ cook.pc = "loop"
    /\ cook.it > Len(gdp)
    /\ cook' = [cook EXCEPT !.pc = "done"]
    /\ UNCHANGED <<rtVars, imgVars, gdp, gdp0, boss, warnings, errors, visited>>

\* the user interrupts the cook
CookInterrupt ==
    /\ cook.pc \in {"loop", "replace"}
    /\ ~boss
    /\ boss' = TRUE
    /\ UNCHANGED <<rtVars, imgVars, gdp, gdp0, cook, warnings, errors, visited>>

\* the input geometry: up to MaxGrids VDB primitives of any value type
InputGrids ==
    UNION {[1 .. n -> {[type |-> ty, name |-> <<"density">>, made |-> 0 - 1] : ty \in GridTypes}]
              : n \in 0 .. MaxGrids}

\* everything but the geometry, the cook and its messages
Rest ==
    /\ aborted = FALSE
    /\ heapErr = {}
    /\ film = [p \in Pixels |-> RGB(4, 4, 4)]
    /\ tr = Idle
    /\ tasks = << >>
    /\ film0 = film
    /\ touched = [p \in Pixels |-> {}]
    /\ scratch = {}
    /\ queries = [p \in Pixels |-> 0]
    /\ uaf = FALSE
    /\ interrupted = "no"
    /\ traces = 0
    /\ sets = 0
    /\ calls = 0
    /\ ndebug = TRUE
    /\ tracers = [t \in TracerIds |-> NoTracer]
    /\ tables = [id \in TableIds |-> NoTable]

InitCook ==
    /\ Rest
    /\ ImgIdle
    /\ gdp \in InputGrids
    /\ gdp0 = gdp
    /\ cook = NoCook
    /\ boss = FALSE
    /\ warnings = {}
    /\ errors = {}
    /\ visited = {}

NextCook ==
    \/ \E whichOp \in (0 - 1) .. 8, renaming \in 0 .. 2, customName \in CustomNames :
          CookBegin(whichOp, renaming, customName)
    \/ CookProcess
    \/ CookReplace
    \/ CookEnd
    \/ CookInterrupt

SpecCook == InitCook /\ [][NextCook]_vars

\* ----------------------------------------------------- Film and cameras
\* size_t of the Film's members, narrowed to 11 bits
FilmSizeMod == 2048
\* the arguments the callers of this model pass
FilmWidths == {0, 2, 33, 64, 65}
FilmHeights == {0, 1, 2, 32}
PixelCols == {0, 1, 2, 33}
PixelRows == {0, 1, 32}
FillColours == {RGB(12, 0, 0), RGBA(18, 0 - 6, 6, 6)}
TileSizes == {1, 3, 32}
Planes == {0 - 1, 0, 1, 2}

\* a & b and a ^ b on unsigned integers
RECURSIVE BitAnd(_, _)
BitAnd(a, b) ==
    IF a = 0 \/ b = 0 THEN 0
    ELSE (a % 2) * (b % 2) + 2 * BitAnd(a \div 2, b \div 2)
RECURSIVE BitXor(_, _)
BitXor(a, b) ==
    IF a = 0 /\ b = 0 THEN 0
    ELSE ((a + b) % 2) + 2 * BitXor(a \div 2, b \div 2)

\* mSize(width*height), in size_t arithmetic
MulSize(a, b) == (a * b) % FilmSizeMod

\* new RGBA[mSize]: every element built by RGBA() : r(0), g(0), b(0), a(1)
NewPixels(n) == [k \in 1 .. n |-> RGB(0, 0, 0)]

\* fill(rgb): for (i = 0; i < mSize; ++i) mPixels[i] = rgb
Fill(f, rgb) == [f EXCEPT !.mPixels = [k \in 1 .. f.mSize |-> rgb]]

\* the offset w + h*mWidth of pixel(w, h) from mPixels, in size_t arithmetic
Offset(f, w, h) == (w + MulSize(h, f.mWidth)) % FilmSizeMod

\* ((i & size) ^ (j & size)) ? c1 : c2
TileSwapped(i, j, size, c1, c2) ==
    IF BitXor(BitAnd(i, size), BitAnd(j, size)) # 0 THEN c2 ELSE c1
Tile(i, j, size, c1, c2) ==
    IF BitXor(BitAnd(i, size), BitAnd(j, size)) # 0 THEN c1 ELSE c2

\* the k-th value the two loops of checkerboard store through p (k from 0):
\* p advances once per column, row after row
Stored(f, k, size, c1, c2) == Tile(k % f.mWidth, k \div f.mWidth, size, c1, c2)

\* static_cast<unsigned char>(255.0f * v): the fraction is dropped; a value
\* that does not fit a byte is undefined, builds either reduce it modulo 256
\* or saturate
Trunc255(v) == IF v >= 0 THEN (255 * v) \div One ELSE 0 - ((255 * (0 - v)) \div One)
ToByte(v, build) ==
    LET t == Trunc255(v)
    IN  IF t \in 0 .. 255 THEN t
        ELSE IF build = "wrap" THEN t % 256
        ELSE IF t > 255 THEN 255 ELSE 0

\* the 3*mSize bytes savePPM puts in tmp: r, g, b of each element in turn
PPMBytes(px, build) ==
    [n \in 1 .. 3 * Len(px) |->
        LET c == px[(n - 1) \div 3 + 1]
            ch == (n - 1) % 3
        IN  ToByte(IF ch = 0 THEN c.r ELSE IF ch = 1 THEN c.g ELSE c.b, build)]

\* a call on the Film object, counted
ImgOp(A) ==
    /\ ~aborted
    /\ ops < MaxOps
    /\ ops' = ops + 1
    /\ A
    /\ UNCHANGED <<rtRest, cookVars>>

\* Film(width, height) and Film(width, height, bg)
FilmCreate(width, height, withBg, bg) ==
    /\ img.st = "none"
    /\ LET f == [st |-> "live", mWidth |-> width, mHeight |-> height,
                 mSize |-> MulSize(width, height),
                 mPixels |-> NewPixels(MulSize(width, height))]
       IN  img' = IF withBg THEN Fill(f, bg) ELSE f
    /\ UNCHANGED <<aborted, theCamera, ppm, pcall, oob>>

\* fill(rgb)
FilmFill(rgb) ==
    /\ img.st = "live"
    /\ img' = Fill(img, rgb)
    /\ pcall' = [kind |-> "fill", w |-> 0, h |-> 0, result |-> "done", arg |-> <<rgb>>]
    /\ UNCHANGED <<aborted, theCamera, ppm, oob>>

\* pixel(w, h), used to read (write = FALSE) or to assign rgb
FilmPixel(w, h, write, rgb) ==
    /\ img.st = "live"
    /\ IF ~ndebug /\ ~(w < img.mWidth /\ h < img.mHeight)
       THEN /\ aborted' = TRUE
            /\ pcall' = [kind |-> "pixel", w |-> w, h |-> h, result |-> "failed", arg |-> << >>]
            /\ UNCHANGED <<img, oob>>
       ELSE LET at == Offset(img, w, h)
            IN  IF at < img.mSize
                THEN /\ img' = IF write THEN [img EXCEPT !.mPixels[at + 1] = rgb] ELSE img
                     /\ pcall' = [kind |-> "pixel", w |-> w, h |-> h, result |-> "element", arg |-> <<at>>]
                     /\ UNCHANGED <<aborted, oob>>
                ELSE /\ pcall' = [kind |-> "pixel", w |-> w, h |-> h, result |-> "outside", arg |-> << >>]
                     /\ oob' = TRUE
                     /\ aborted' \in {aborted, TRUE}
                     /\ img' = img
    /\ UNCHANGED <<theCamera, ppm>>

\* checkerboard(c1, c2, size): mWidth*mHeight stores through p; those past
\* the mSize elements of mPixels land outside the storage
FilmCheckerboard(c1, c2, size) ==
    /\ img.st = "live"
    /\ pcall' = [kind |-> "checkerboard", w |-> 0, h |-> 0, result |-> "done",
                 arg |-> <<size, c1, c2>>]
    /\ IF img.mWidth * img.mHeight <= img.mSize
       THEN /\ img' = [img EXCEPT !.mPixels = [k \in 1 .. img.mSize |-> Stored(img, k - 1, size, c1, c2)]]
            /\ UNCHANGED <<aborted, oob>>
       ELSE /\ oob' = TRUE
            /\ \/ aborted' = TRUE /\ img' = img
               \/ /\ aborted' = aborted
                  /\ img' = [img EXCEPT !.mPixels = [k \in 1 .. img.mSize |-> Stored(img, k - 1, size, c1, c2)]]
    /\ UNCHANGED <<theCamera, ppm>>

\* savePPM(fileName): the bytes are converted, then the file is opened; when
\* it cannot be opened a message is printed and nothing is written
FilmSavePPM(opened, build) ==
    /\ img.st = "live"
    /\ ppm' = IF opened
              THEN [st |-> "written", header |-> <<"P6", img.mWidth, img.mHeight, 255>>,
                    bytes |-> PPMBytes(img.mPixels, build), from |-> img.mPixels]
              ELSE [NoPPM EXCEPT !.st = "Error opening PPM file"]
    /\ UNCHANGED <<aborted, img, theCamera, pcall, oob>>

\* PerspectiveCamera / OrthographicCamera(film, ..., nearPlane, farPlane):
\* BaseCamera asserts nearPlane > 0 && farPlane > nearPlane
CameraCreate(kind, nearPlane, farPlane) ==
    /\ img.st = "live"
    /\ theCamera.st = "none"
    /\ IF ~ndebug /\ ~(nearPlane > 0 /\ farPlane > nearPlane)
       THEN aborted' = TRUE /\ theCamera' = theCamera
       ELSE /\ aborted' = aborted
            /\ theCamera' = [st |-> "live", kind |-> kind, nearPlane |-> nearPlane,
                             farPlane |-> farPlane]
    /\ UNCHANGED <<img, ppm, pcall, oob>>

InitFilm ==
    /\ InitLife

NextFilm ==
    \/ \E width \in FilmWidths, height \in FilmHeights :
          \/ ImgOp(FilmCreate(width, height, FALSE, RGB(0, 0, 0)))
          \/ \E bg \in FillColours : ImgOp(FilmCreate(width, height, TRUE, bg))
    \/ \E rgb \in FillColours : ImgOp(FilmFill(rgb))
    \/ \E w \in PixelCols, h \in PixelRows :
          \/ ImgOp(FilmPixel(w, h, FALSE, RGB(0, 0, 0)))
          \/ \E rgb \in FillColours : ImgOp(FilmPixel(w, h, TRUE, rgb))
    \/ \E size \in TileSizes : ImgOp(FilmCheckerboard(RGB(4, 4, 4), RGB(7, 7, 7), size))
    \/ \E opened \in BOOLEAN, build \in {"wrap", "saturate"} : ImgOp(FilmSavePPM(opened, build))
    \/ \E kind \in Cameras, nearPlane \in Planes, farPlane \in Planes :
          ImgOp(CameraCreate(kind, nearPlane, farPlane))

SpecFilm == InitFilm /\ [][NextFilm]_vars

\* =============================================================== claims
TaskIds == DOMAIN tasks
Caller == tracers[tr.caller]
\* the jitter table a tracer reads when its pointer is valid
ValsOf(x) == IF x.mRand # NULL THEN tables[x.mRand].vals ELSE NoTable.vals
Primary(x, p) == getRay(x.mCamera, p[1], p[2], Centre, Centre)

\* (*this)(range) on the range [j, end) entered at column i with counter n:
\* the film it leaves
RECURSIVE RangeFrom(_, _, _, _, _, _, _)
RangeFrom(x, vals, f, i, j, n, end) ==
    IF j >= end THEN f
    ELSE RangeFrom(x, vals, [f EXCEPT ![<<i, j>>] = PixelColour(x, vals, i, j, f[<<i, j>>], n)],
                   IF i + 1 = Width THEN 0 ELSE i + 1,
                   IF i + 1 = Width THEN j + 1 ELSE j,
                   NextN(x, n, i), end)
\* trace(false): the single range [0, height)
Unthreaded(x, f) == RangeFrom(x, ValsOf(x), f, 0, 0, 0, Height)

\* C1: with pixelSamples > 1, a threaded trace leaves the image that the
\* unthreaded trace of the same tracer leaves on the same pre-filled film,
\* whatever the partition of the rows into ranges.
C1_ThreadedEqualsUnthreaded ==
    (AllDone /\ tr.threaded /\ Caller.mSubPixels > 0 /\ ~uaf)
        => film = Unthreaded(Caller, film0)

\* C2: no pixel is touched by more than one task, a task touches only rows
\* of its own range, and the ranges of the tasks are pairwise disjoint.
C2_DisjointRows ==
    tr.phase = "running" =>
        /\ \A p \in Pixels : Cardinality(touched[p]) <= 1
        /\ \A p \in Pixels : \A k \in touched[p] : k \in TaskIds /\ p[2] \in RowsOf(tasks[k])
        /\ \A k1, k2 \in TaskIds : k1 # k2 => RowsOf(tasks[k1]) \cap RowsOf(tasks[k2]) = {}

\* a threaded trace ended in which two tasks each wrote pixels
C2_Witness ==
    /\ AllDone
    /\ \E p, q \in Pixels : touched[p] # {} /\ touched[q] # {} /\ touched[p] # touched[q]

\* C3: with pixelSamples = 1, a pixel whose primary ray misses holds after
\* the trace the RGBA value, alpha included, that it held before.
C3_MissKeepsPixel ==
    (AllDone /\ Caller.mSubPixels = 0) =>
        \A p \in Pixels :
            ~intersectsWS(Caller.mInter, Primary(Caller, p)) => film[p] = film0[p]

\* C4: with pixelSamples = 1, every pixel is the primary-ray result (shader
\* colour on a hit, pre-trace value on a miss), one query was made per pixel
\* and no jitter table exists.
C4_PrimaryRayOnly ==
    (AllDone /\ Caller.mSubPixels = 0) =>
        /\ Caller.mRand = NULL
        /\ \A p \in Pixels :
              /\ queries[p] = 1
              /\ film[p] = Sample(Caller, Primary(Caller, p), film0[p])

\* the colour c with each of its four channels weighted by w
Weighted(c, w) == RGBA(FMul(c.r, w), FMul(c.g, w), FMul(c.b, w), FMul(c.a, w))
\* the task that ran pixel p, and the number of jittered rays it had cast
\* in its range before reaching p
TaskOf(p) == CHOOSE k \in TaskIds : p[2] \in RowsOf(tasks[k])
JitteredBefore(p) ==
    ((p[2] - tasks[TaskOf(p)].begin) * Width + p[1]) * Caller.mSubPixels
\* the sum of the primary sample and of the N-1 jittered samples of pixel p,
\* the k-th jittered ray of the range using table entries 2k and 2k+1 mod 16
RECURSIVE SampleSum(_, _, _, _)
SampleSum(p, k, left, c) ==
    IF left = 0 THEN c
    ELSE SampleSum(p, k + 1, left - 1,
            PlusEq(c, Sample(Caller,
                             getRay(Caller.mCamera, p[1], p[2],
                                    ValsOf(Caller)[(2 * k) % RandSize],
                                    ValsOf(Caller)[(2 * k + 1) % RandSize]),
                             film0[p])))

\* C5: with pixelSamples = N > 1, every pixel is the sum of its N samples,
\* each weighted 1/N in all four channels.
C5_AverageOfSamples ==
    (AllDone /\ Caller.mSubPixels > 0 /\ ~uaf) =>
        \A p \in Pixels :
            /\ queries[p] = Caller.mSubPixels + 1
            /\ film[p] = Weighted(SampleSum(p, JitteredBefore(p), Caller.mSubPixels,
                                            Sample(Caller, Primary(Caller, p), film0[p])),
                                  One \div (Caller.mSubPixels + 1))

\* the same for the colour channels alone
C5_AverageOfSamplesRGB ==
    (AllDone /\ Caller.mSubPixels > 0 /\ ~uaf) =>
        \A p \in Pixels :
            LET w == Weighted(SampleSum(p, JitteredBefore(p), Caller.mSubPixels,
                                        Sample(Caller, Primary(Caller, p), film0[p])),
                              One \div (Caller.mSubPixels + 1))
            IN  film[p].r = w.r /\ film[p].g = w.g /\ film[p].b = w.b

\* C6: every body copied for a parallel task has its own intersector and its
\* own shader and takes camera, sample count and jitter table from the
\* tracer it was copied from; no two tasks query the same intersector or
\* touch the same pixel, and while the trace runs neither the jitter tables
\* nor any tracer's members are written.
C6_OwnState ==
    (tr.phase = "running" /\ tr.threaded) =>
        /\ \A k \in TaskIds :
              LET b == tasks[k].body
              IN  /\ ~b.mIsMaster
                  /\ b.mInter.at # Caller.mInter.at /\ b.mInter.grid = Caller.mInter.grid
                  /\ b.mShader.at # Caller.mShader.at /\ b.mShader.rgba = Caller.mShader.rgba
                  /\ b.mCamera = Caller.mCamera
                  /\ b.mSubPixels = Caller.mSubPixels
                  /\ b.mRand = Caller.mRand
        /\ \A k1, k2 \in TaskIds :
              k1 # k2 => /\ tasks[k1].body.mInter.at # tasks[k2].body.mInter.at
                         /\ tasks[k1].body.mShader.at # tasks[k2].body.mShader.at
        /\ \A e1, e2 \in scratch : e1[1] # e2[1] => e1[2] # e2[2]
        /\ \A p \in Pixels : Cardinality(touched[p]) <= 1
C6_ClonesShareOnlyReadOnlyState ==
    /\ []C6_OwnState
    /\ [][tr.phase = "running" => (tables' = tables /\ tracers' = tracers)]_vars

\* two tasks of a threaded trace have each run intersection queries
C6_Witness ==
    /\ tr.phase = "running" /\ tr.threaded
    /\ \E e1, e2 \in scratch : e1[1] # e2[1]

\* C10: once an interruption is signalled during trace, no row that has not
\* been started is started: its pixels stay untouched and unchanged.
C10_StopsIssuingRows ==
    [][(interrupted # "no" /\ tr.phase = "running") =>
          \A j \in Rows : NotStarted(j) =>
              \A i \in Cols : touched'[<<i, j>>] = {} /\ film'[<<i, j>>] = film[<<i, j>>]]_vars

\* C10 as amended: trace never polls for an interruption; signalled or not,
\* it ends without an error state only when every task has run its range to
\* the end, each pixel of the film having been computed exactly once.
C10_InterruptionIgnored ==
    (AllDone /\ interrupted # "no") =>
        /\ ~aborted
        /\ \A k \in TaskIds : tasks[k].j = tasks[k].end /\ tasks[k].i = 0
        /\ \A p \in Pixels : Cardinality(touched[p]) = 1 /\ queries[p] = Caller.mSubPixels + 1

\* a trace ended that was interrupted when some row had not been started
C10_Witness ==
    AllDone /\ interrupted = "early"

\* C7: through construction, setPixelSamples on the master, copies (of the
\* master and of clones) and destructions in any order, no clone frees a
\* jitter table, no table is freed twice, and no table outlives the master
\* that points to it: every allocated table is the one the live master holds.
C7_TableFreedOnceByMaster ==
    /\ "cloneFree" \notin heapErr
    /\ "doubleFree" \notin heapErr
    /\ \A id \in TableIds :
          tables[id].live => Live(1) /\ tracers[1].mIsMaster /\ tracers[1].mRand = id

\* the master is gone and its table released, while a clone made earlier
\* (the other clone slot being empty again) still holds the old pointer
C7_Witness ==
    /\ tracers[1].st = "none" /\ tracers[2].st = "none"
    /\ Live(3) /\ tracers[3].mRand # NULL
    /\ \A id \in TableIds : ~tables[id].live
    /\ heapErr = {}

\* C8: a configuration call on a clone is rejected: no step changes any
\* member of a clone that stays alive.
C8_CloneSettersRejected ==
    [][\A t \in TracerIds :
          (Live(t) /\ ~tracers[t].mIsMaster /\ tracers'[t].st = "live")
              => tracers'[t] = tracers[t]]_vars

\* C9: every tracer that exists has pixelSamples >= 1: its mSubPixels is
\* never 0 - 1 wrapped around.
C9_SamplesAtLeastOne ==
    \A t \in TracerIds : Live(t) => (tracers[t].mSubPixels + 1) % SizeMod >= 1

\* the primitives of the group
GridIds == 1 .. Len(gdp0)
\* the operator selected for the cook does not take grids of g's value type:
\* gradient, curvature, Laplacian and closest point take scalar grids,
\* divergence, curl, length and normalize take vector grids
Unsupported(g) ==
    IF cook.whichOp <= 3 THEN gdp0[g].type # "float" ELSE gdp0[g].type # "vec3s"
\* the cook stopped before the end of the group
Stopped == errors \cap {"was interrupted", "expected 0 <= operator <= 7"} # {}

\* C11: a grid the selected operator cannot process gets a warning and no
\* error, is handed to no operator and stays as it was; the cook does not
\* stop at it: unless interrupted, it ends past the last grid with every
\* grid of a supported type replaced by the operator's output.
C11_UnsupportedGridSkipped ==
    (cook.pc \in {"loop", "done"} /\ "expected 0 <= operator <= 7" \notin errors) =>
        /\ \A g \in GridIds :
              (g < cook.it /\ Unsupported(g)) =>
                  /\ g \in warnings
                  /\ "Can't compute" \notin errors
                  /\ g \notin visited
                  /\ gdp[g] = gdp0[g]
        /\ \A g \in GridIds : ~Unsupported(g) => g \notin warnings
        /\ (cook.pc = "done" /\ ~Stopped) =>
              /\ cook.it = Len(gdp0) + 1
              /\ \A g \in GridIds :
                    ~Unsupported(g) => g \in visited /\ gdp[g].made = cook.whichOp

\* a cook ended whose first grid was skipped and whose second was replaced
C11_Witness ==
    /\ cook.pc = "done"
    /\ Len(gdp0) >= 2
    /\ Unsupported(1) /\ 1 \in warnings /\ gdp[1] = gdp0[1]
    /\ ~Unsupported(2) /\ gdp[2].made = cook.whichOp /\ gdp[2] # gdp0[2]

\* a cook that ended on an interruption left every grid from the one it was
\* about to begin untouched, and the supported ones before it replaced
C17_InterruptedCook ==
    (cook.pc = "done" /\ "was interrupted" \in errors) =>
        /\ cook.it \in GridIds
        /\ \A g \in GridIds :
              /\ g >= cook.it => gdp[g] = gdp0[g] /\ g \notin visited /\ g \notin warnings
              /\ (g < cook.it /\ ~Unsupported(g)) => gdp[g].made = cook.whichOp

\* C17: the interrupter is polled before each grid; when the poll sees an
\* interruption the cook ends there with the error "was interrupted", no
\* further grid being processed or replaced and the grids replaced before
\* staying replaced; nothing changes once the cook has ended.
C17_PollBeforeEachGrid ==
    /\ []C17_InterruptedCook
    /\ [][(boss /\ cook.pc = "loop" /\ cook.it <= Len(gdp)) =>
             /\ cook'.pc = "done" /\ cook'.it = cook.it
             /\ errors' = errors \cup {"was interrupted"}
             /\ gdp' = gdp /\ visited' = visited /\ warnings' = warnings]_cookVars
    /\ [][cook.pc = "done" => (gdp' = gdp /\ errors' = errors /\ cook' = cook)]_cookVars

\* an interrupted cook that had replaced its first grid before
C17_Witness ==
    /\ cook.pc = "done" /\ "was interrupted" \in errors
    /\ cook.it > 1 /\ gdp[1] # gdp0[1]

\* C12: a Film that exists was created from a width and a height whose
\* product fits the size type, and holds exactly width*height pixels.
C12_NoOverflowedFilm ==
    img.st = "live" =>
        /\ img.mWidth * img.mHeight < FilmSizeMod
        /\ img.mSize = img.mWidth * img.mHeight
        /\ Len(img.mPixels) = img.mWidth * img.mHeight

\* C13: a call pixel(col, row) with col >= width or row >= height fails; it
\* reaches no element of the pixel storage, nor anything outside it.
C13_OutOfRangeFails ==
    (pcall.kind = "pixel" /\ (pcall.w >= img.mWidth \/ pcall.h >= img.mHeight)) =>
        pcall.result = "failed"

\* a call pixel(2, 0) on a film 2 wide and 2 high reached the element of
\* pixel (0, 1)
C13_Aliased ==
    /\ img.mWidth = 2 /\ img.mHeight = 2
    /\ pcall.kind = "pixel" /\ pcall.w = 2 /\ pcall.h = 0
    /\ pcall.result = "element" /\ pcall.arg = <<2>>

\* C14: every camera that exists has nearPlane > 0 and farPlane > nearPlane.
C14_PlanesValid ==
    theCamera.st = "live" =>
        theCamera.nearPlane > 0 /\ theCamera.farPlane > theCamera.nearPlane

\* floor(255*v) clamped to [0, 255]
Clamped(v) ==
    LET t == (255 * v) \div One
    IN  IF t < 0 THEN 0 ELSE IF t > 255 THEN 255 ELSE t

\* C15: the file written has the header P6, width, height, 255 and then
\* 3*width*height bytes: for each pixel in row-major order the clamped
\* floor(255*v) of its r, g and b.
C15_PPMClamped ==
    ppm.st = "written" =>
        /\ ppm.header = <<"P6", img.mWidth, img.mHeight, 255>>
        /\ Len(ppm.bytes) = 3 * img.mWidth * img.mHeight
        /\ \A k \in 1 .. Len(ppm.from) :
              /\ ppm.bytes[3 * k - 2] = Clamped(ppm.from[k].r)
              /\ ppm.bytes[3 * k - 1] = Clamped(ppm.from[k].g)
              /\ ppm.bytes[3 * k] = Clamped(ppm.from[k].b)

\* the pixel (col, row) of img, when the storage holds it
InStorage(col, row) == col + row * img.mWidth < img.mSize
PixelAt(col, row) == img.mPixels[col + row * img.mWidth + 1]

\* C16: after checkerboard(c1, c2, size) every pixel (col, row) of the film
\* holds c1 if (col & size) xor (row & size) is not zero and c2 otherwise;
\* with size = 32, (0,0) and (31,31) hold the same colour and (32,0) another.
C16_Checkerboard ==
    (pcall.kind = "checkerboard" /\ ~aborted) =>
        LET size == pcall.arg[1]
            c1 == pcall.arg[2]
            c2 == pcall.arg[3]
        IN  /\ \A col \in 0 .. (img.mWidth - 1), row \in 0 .. (img.mHeight - 1) :
                  InStorage(col, row) =>
                      PixelAt(col, row) =
                          IF BitXor(BitAnd(col, size), BitAnd(row, size)) # 0 THEN c1 ELSE c2
            /\ (size = 32 /\ InStorage(31, 31) /\ img.mWidth > 32) =>
                  PixelAt(0, 0) = PixelAt(31, 31) /\ PixelAt(32, 0) # PixelAt(0, 0)

\* checkerboard with size 32 ran on a film 33 wide and 32 high
C16_Witness ==
    /\ pcall.kind = "checkerboard" /\ ~aborted
    /\ pcall.arg[1] = 32
    /\ img.mWidth = 33 /\ img.mHeight = 32 /\ img.mSize = 33 * 32
    /\ PixelAt(32, 0) = pcall.arg[2] /\ PixelAt(31, 31) = pcall.arg[3]

\* C18: the jitter table a live clone points to is the one its master
\* holds allocated now, the clone's sample count is the master's, and no
\* jitter read goes to a table that was freed.
C18_CloneTableValid ==
    /\ ~uaf
    /\ \A t \in TracerIds :
          (Live(t) /\ ~tracers[t].mIsMaster /\ tracers[t].mSubPixels > 0) =>
              /\ tracers[t].mRand # NULL
              /\ tables[tracers[t].mRand].live
              /\ Live(1) /\ tracers[1].mRand = tracers[t].mRand
              /\ tracers[1].mSubPixels = tracers[t].mSubPixels

\* a trace returned, started on a copy whose master had been destroyed
C18_TracedAfterFree ==
    /\ traces = 1 /\ uaf
    /\ ~Live(1)

\* every pixel was visited once by the trace that returned: it belongs to
\* one task and saw the queries of one visit
WrittenOnce ==
    \A p \in Pixels :
        /\ Cardinality(touched[p]) = 1
        /\ \E x \in {tracers[t] : t \in TracerIds} : queries[p] = x.mSubPixels + 1

\* C19: a trace that was started returns, and when it has returned every
\* pixel of the film has been written exactly once.
C19_TraceTerminates ==
    /\ (tr.phase = "running") ~> (tr.phase = "idle" /\ traces = 1 /\ WrittenOnce)
    /\ [](traces = 1 => WrittenOnce)

\* a threaded trace returned whose rows had been run by two tasks or more
C19_Witness ==
    /\ tr.phase = "idle" /\ traces = 1
    /\ \E p, q \in Pixels : touched[p] # {} /\ touched[q] # {} /\ touched[p] # touched[q]

\* the pixelSamples a master was last configured with, read back from
\* mSubPixels = pixelSamples - 1
SamplesOf(x) == (x.mSubPixels + 1) % SizeMod

\* C20: a master's jitter table is allocated (with 16 entries) exactly when
\* its pixelSamples is above 1 and null when it is 1, no table being left
\* allocated that no master holds; no jitter read finds its table missing.
C20_TableIffSamplesAboveOne ==
    /\ \A t \in TracerIds :
          (Live(t) /\ tracers[t].mIsMaster) =>
              /\ (tracers[t].mRand # NULL) <=> (SamplesOf(tracers[t]) > 1)
              /\ (tracers[t].mRand = NULL) <=> (SamplesOf(tracers[t]) = 1)
              /\ tracers[t].mRand # NULL =>
                    /\ tables[tracers[t].mRand].live
                    /\ DOMAIN tables[tracers[t].mRand].vals = 0 .. 15
    /\ \A id \in TableIds :
          tables[id].live => \E t \in TracerIds : Live(t) /\ tracers[t].mIsMaster /\ tracers[t].mRand = id
    /\ ~uaf

\* the same for masters configured with pixelSamples >= 1
C20_TableIffSamplesFromOne ==
    \A t \in TracerIds :
        (Live(t) /\ tracers[t].mIsMaster /\ SamplesOf(tracers[t]) >= 1) =>
            /\ (tracers[t].mRand # NULL) <=> (SamplesOf(tracers[t]) > 1)
            /\ tracers[t].mRand # NULL => tables[tracers[t].mRand].live

====
